---------------------------- MODULE Spec2Model ----------------------------
(***************************************************************************)
(* Gradient descent for univariate linear regression, as implemented in    *)
(* Week_1_-_Linear_Regression/7.Gradient_Descent_Optimisiation.ipynb:      *)
(* compute_cost, compute_gradient and the loop of gradient_descent.        *)
(*                                                                         *)
(* Numbers.  The notebook computes with Python floats.  The model computes *)
(* with exact decimals of unbounded precision: a number is a sign, a       *)
(* sequence of decimal digits (least significant first) and the number of  *)
(* digits after the decimal point.  Every operation the notebook performs  *)
(* (+, -, *, **2, / n) is exact on such numbers for the dataset sizes the  *)
(* model draws (n divides a power of ten), so the model is the real-number *)
(* semantics of the code; IEEE rounding, overflow to inf and NaN are not   *)
(* modelled.                                                               *)
(***************************************************************************)
EXTENDS Integers, Sequences, FiniteSets, TLC

(***************************************************************************)
(* Natural numbers of unbounded size: digit sequences, least significant   *)
(* digit first, no leading (high) zero; <<>> is zero.                      *)
(***************************************************************************)
RECURSIVE NStrip(_)
NStrip(d) ==
    IF d = <<>> THEN <<>>
    ELSE IF d[Len(d)] = 0 THEN NStrip(SubSeq(d, 1, Len(d) - 1))
    ELSE d

RECURSIVE NZeros(_)
NZeros(k) == IF k <= 0 THEN <<>> ELSE <<0>> \o NZeros(k - 1)

RECURSIVE NFromInt(_)
NFromInt(k) == IF k = 0 THEN <<>> ELSE <<k % 10>> \o NFromInt(k \div 10)

NDigit(d, j) == IF j <= Len(d) THEN d[j] ELSE 0

NMaxLen(a, b) == IF Len(a) >= Len(b) THEN Len(a) ELSE Len(b)

RECURSIVE NAddFrom(_, _, _, _)
NAddFrom(a, b, j, carry) ==
    IF j > NMaxLen(a, b)
    THEN (IF carry = 0 THEN <<>> ELSE <<carry>>)
    ELSE LET s == NDigit(a, j) + NDigit(b, j) + carry
         IN  <<s % 10>> \o NAddFrom(a, b, j + 1, s \div 10)

NAdd(a, b) == NAddFrom(a, b, 1, 0)

\* a - b for a >= b
RECURSIVE NSubFrom(_, _, _, _)
NSubFrom(a, b, j, borrow) ==
    IF j > Len(a) THEN <<>>
    ELSE LET s == a[j] - NDigit(b, j) - borrow
         IN  IF s < 0
             THEN <<s + 10>> \o NSubFrom(a, b, j + 1, 1)
             ELSE <<s>> \o NSubFrom(a, b, j + 1, 0)

NSub(a, b) == NStrip(NSubFrom(a, b, 1, 0))

\* -1, 0, 1 as a < b, a = b, a > b; both without leading zeros
RECURSIVE NCmpFrom(_, _, _)
NCmpFrom(a, b, j) ==
    IF j = 0 THEN 0
    ELSE IF a[j] < b[j] THEN -1
    ELSE IF a[j] > b[j] THEN 1
    ELSE NCmpFrom(a, b, j - 1)

NCmp(a, b) ==
    IF Len(a) < Len(b) THEN -1
    ELSE IF Len(a) > Len(b) THEN 1
    ELSE NCmpFrom(a, b, Len(a))

RECURSIVE NMulDigitFrom(_, _, _, _)
NMulDigitFrom(a, k, j, carry) ==
    IF j > Len(a)
    THEN (IF carry = 0 THEN <<>> ELSE <<carry>>)
    ELSE LET s == a[j] * k + carry
         IN  <<s % 10>> \o NMulDigitFrom(a, k, j + 1, s \div 10)

RECURSIVE NMulFrom(_, _, _)
NMulFrom(a, b, j) ==
    IF j > Len(b) THEN <<>>
    ELSE NAdd(NMulDigitFrom(a, b[j], 1, 0), <<0>> \o NMulFrom(a, b, j + 1))

NMul(a, b) == NStrip(NMulFrom(a, b, 1))

(***************************************************************************)
(* Decimals: [neg, dig, exp] is (-1)^neg * dig * 10^(-exp), kept canonical *)
(* (no leading zero, no trailing zero after the point, zero is positive)   *)
(* so that equal numbers are equal values.                                 *)
(***************************************************************************)
DZero == [neg |-> FALSE, dig |-> <<>>, exp |-> 0]

RECURSIVE DNormLow(_, _, _)
DNormLow(neg, dig, exp) ==
    IF dig = <<>> THEN DZero
    ELSE IF exp > 0 /\ dig[1] = 0 THEN DNormLow(neg, Tail(dig), exp - 1)
    ELSE [neg |-> neg, dig |-> dig, exp |-> exp]

DNorm(neg, dig, exp) == DNormLow(neg, NStrip(dig), exp)

\* the Python number with integer part k and decimal digits e: k * 10^(-e)
DLit(k, e) == DNorm(k < 0, NFromInt(IF k < 0 THEN -k ELSE k), e)

DInt(k) == DLit(k, 0)

DShift(a, e) == NZeros(e - a.exp) \o a.dig

DNeg(a) == IF a.dig = <<>> THEN a ELSE [a EXCEPT !.neg = ~a.neg]

DAdd(a, b) ==
    LET e  == IF a.exp >= b.exp THEN a.exp ELSE b.exp
        da == DShift(a, e)
        db == DShift(b, e)
    IN  IF a.neg = b.neg THEN DNorm(a.neg, NAdd(da, db), e)
        ELSE IF NCmp(da, db) >= 0 THEN DNorm(a.neg, NSub(da, db), e)
        ELSE DNorm(b.neg, NSub(db, da), e)

DSub(a, b) == DAdd(a, DNeg(b))

DMul(a, b) == DNorm(a.neg # b.neg, NMul(a.dig, b.dig), a.exp + b.exp)

DSquare(a) == DMul(a, a)

\* the least k with n dividing 10^k, searched from 10^k = p
RECURSIVE DPowFor(_, _, _)
DPowFor(n, k, p) == IF p % n = 0 THEN k ELSE DPowFor(n, k + 1, p * 10)

RECURSIVE DPow10(_)
DPow10(k) == IF k = 0 THEN 1 ELSE 10 * DPow10(k - 1)

\* a / n for a positive integer n that divides a power of ten
DDivInt(a, n) ==
    LET k == DPowFor(n, 0, 1)
    IN  DMul(a, DLit(DPow10(k) \div n, k))

DSign(a) == IF a.dig = <<>> THEN 0 ELSE IF a.neg THEN -1 ELSE 1

DLess(a, b) == DSign(DSub(a, b)) < 0

DLeq(a, b) == DSign(DSub(a, b)) <= 0

(***************************************************************************)
(* Bounds of the model.  HistoryCap stands for the literal 100000 of       *)
(* `if i<100000` (the loop compares i with it and nothing else), scaled so *)
(* that runs cross it; MaxIters bounds num_iters.                          *)
(***************************************************************************)
HistoryCap == 10

MaxIters == 12

\* the iteration count of the notebook's "Too High Learning Rate" cell
DivergeIters == 10

(***************************************************************************)
(* Results of a call: a value, or the exception it raises.                 *)
(***************************************************************************)
Ok(v) == [err |-> "none", val |-> v]

Raise(e) == [err |-> e]

(***************************************************************************)
(* compute_cost(x, y, m, b)                                                *)
(***************************************************************************)
RECURSIVE cost_loop(_, _, _, _, _, _)
cost_loop(x, y, m, b, k, cost_sum) ==
    IF k > Len(x) THEN cost_sum
    ELSE LET f_mb == DAdd(DMul(m, x[k]), b)
             cost == DSquare(DSub(f_mb, y[k]))
         IN  cost_loop(x, y, m, b, k + 1, DAdd(cost_sum, cost))

compute_cost(x, y, m, b) ==
    LET n        == Len(x)
        cost_sum == cost_loop(x, y, m, b, 1, DZero)
    IN  IF 2 * n = 0 THEN Raise("ZeroDivisionError")
        ELSE Ok(DMul(DDivInt(DInt(1), 2 * n), cost_sum))

(***************************************************************************)
(* compute_gradient(x, y, m, b)                                            *)
(***************************************************************************)
\* mutant: the error taken as f_mb + y[i]
RECURSIVE gradient_loop_SignSlip(_, _, _, _, _, _)
gradient_loop_SignSlip(x, y, m, b, k, acc) ==
    IF k > Len(x) THEN acc
    ELSE LET f_mb    == DAdd(DMul(m, x[k]), b)
             dj_dm_i == DMul(DAdd(f_mb, y[k]), x[k])
             dj_db_i == DAdd(f_mb, y[k])
         IN  gradient_loop_SignSlip(x, y, m, b, k + 1,
                 [dj_dm |-> DAdd(acc.dj_dm, dj_dm_i),
                  dj_db |-> DAdd(acc.dj_db, dj_db_i)])

RECURSIVE gradient_loop(_, _, _, _, _, _)
gradient_loop(x, y, m, b, k, acc) ==
    IF k > Len(x) THEN acc
    ELSE LET f_mb    == DAdd(DMul(m, x[k]), b)
             dj_dm_i == DMul(DSub(f_mb, y[k]), x[k])
             dj_db_i == DSub(f_mb, y[k])
         IN  gradient_loop(x, y, m, b, k + 1,
                 [dj_dm |-> DAdd(acc.dj_dm, dj_dm_i),
                  dj_db |-> DAdd(acc.dj_db, dj_db_i)])

\* mutant: no division when there are no examples, the sums returned
compute_gradient_NoRaise(x, y, m, b) ==
    LET n   == Len(x)
        sum == gradient_loop(x, y, m, b, 1, [dj_dm |-> DZero, dj_db |-> DZero])
    IN  IF n = 0 THEN Ok(sum)
        ELSE Ok([dj_dm |-> DDivInt(sum.dj_dm, n), dj_db |-> DDivInt(sum.dj_db, n)])

\* mutant: the sums divided by 2 * n, the factor of compute_cost
compute_gradient_Halved(x, y, m, b) ==
    LET n   == Len(x)
        sum == gradient_loop(x, y, m, b, 1, [dj_dm |-> DZero, dj_db |-> DZero])
    IN  IF n = 0 THEN Raise("ZeroDivisionError")
        ELSE Ok([dj_dm |-> DDivInt(sum.dj_dm, 2 * n), dj_db |-> DDivInt(sum.dj_db, 2 * n)])

compute_gradient(x, y, m, b) ==
    LET n   == Len(x)
        sum == gradient_loop(x, y, m, b, 1, [dj_dm |-> DZero, dj_db |-> DZero])
    IN  IF n = 0 THEN Raise("ZeroDivisionError")
        ELSE Ok([dj_dm |-> DDivInt(sum.dj_dm, n), dj_db |-> DDivInt(sum.dj_db, n)])

(***************************************************************************)
(* The inputs of gradient_descent the model draws.                         *)
(***************************************************************************)
DSeq(s) == [k \in 1..Len(s) |-> DInt(s[k])]

\* x_train, y_train of the notebook
TrainSet == [x |-> DSeq(<<1, 2>>), y |-> DSeq(<<300, 500>>)]

Datasets ==
    { TrainSet,
      [x |-> <<>>, y |-> <<>>],
      [x |-> DSeq(<<2>>), y |-> DSeq(<<500>>)],
      [x |-> DSeq(<<0, 1, 2, 3>>), y |-> DSeq(<<100, 300, 500, 700>>)] }

\* <<m_in, b_in>>
InitParams == { <<DInt(0), DInt(0)>>, <<DInt(200), DInt(100)>>, <<DInt(100), DInt(300)>> }

\* 8.0e-1 and 1.0e-2 of the notebook, and a negative rate
Alphas == { DLit(8, 1), DLit(1, 2), DLit(-5, 1) }

\* math.ceil(num_iters/10), for num_iters >= 1
CeilTenth(n) == (n + 9) \div 10

VARIABLES
    x, y, m_in, b_in, alpha, num_iters,   \* the arguments
    J_history, p_history, b, m,           \* the locals before the loop
    i, dj_dm, dj_db,                      \* the loop's locals
    pc,                                   \* the next statement
    exc,                                  \* the exception raised, if any
    grad_calls,                           \* the <<m, b>> passed to gradient_function, in call order
    out                                   \* the lines printed

vars == <<x, y, m_in, b_in, alpha, num_iters, J_history, p_history, b, m,
          i, dj_dm, dj_db, pc, exc, grad_calls, out>>

args == <<x, y, m_in, b_in, alpha, num_iters>>

\* gradient_descent entered, up to `for i in range(num_iters)`
Init ==
    /\ \E d \in Datasets : x = d.x /\ y = d.y
    /\ \E p \in InitParams : m_in = p[1] /\ b_in = p[2]
    /\ alpha \in Alphas
    /\ num_iters \in -1..MaxIters
    /\ J_history = <<>>
    /\ p_history = <<>>
    /\ b = b_in
    /\ m = m_in
    /\ i = 0
    /\ dj_dm = DZero
    /\ dj_db = DZero
    /\ pc = "loop"
    /\ exc = "none"
    /\ grad_calls = <<>>
    /\ out = <<>>

\* dj_dm, dj_db = gradient_function(x, y, m, b), for the next i of range(num_iters)
CallGradient ==
    /\ pc = "loop"
    /\ i < num_iters
    /\ grad_calls' = Append(grad_calls, <<m, b>>)
    /\ LET g == compute_gradient(x, y, m, b)
       IN  IF g.err = "none"
           THEN /\ dj_dm' = g.val.dj_dm
                /\ dj_db' = g.val.dj_db
                /\ pc' = "update_b"
                /\ exc' = exc
           ELSE /\ pc' = "raised"
                /\ exc' = g.err
                /\ UNCHANGED <<dj_dm, dj_db>>
    /\ UNCHANGED <<args, J_history, p_history, b, m, i, out>>

\* b = b - alpha * dj_db
UpdateB ==
    /\ pc = "update_b"
    /\ b' = DSub(b, DMul(alpha, dj_db))
    /\ pc' = "update_m"
    /\ UNCHANGED <<args, J_history, p_history, m, i, dj_dm, dj_db, exc, grad_calls, out>>

\* mutant: m = m + alpha * dj_dm
UpdateM_Ascent ==
    /\ pc = "update_m"
    /\ m' = DAdd(m, DMul(alpha, dj_dm))
    /\ pc' = "save"
    /\ UNCHANGED <<args, J_history, p_history, b, i, dj_dm, dj_db, exc, grad_calls, out>>

\* mutant: m updated from the gradient at the already-updated b
UpdateM_Sequential ==
    /\ pc = "update_m"
    /\ m' = DSub(m, DMul(alpha, compute_gradient(x, y, m, b).val.dj_dm))
    /\ pc' = "save"
    /\ UNCHANGED <<args, J_history, p_history, b, i, dj_dm, dj_db, exc, grad_calls, out>>

\* mutant: m updated only while the history is being recorded
UpdateM_WhileRecording ==
    /\ pc = "update_m"
    /\ m' = IF i < HistoryCap THEN DSub(m, DMul(alpha, dj_dm)) ELSE m
    /\ pc' = "save"
    /\ UNCHANGED <<args, J_history, p_history, b, i, dj_dm, dj_db, exc, grad_calls, out>>

\* m = m - alpha * dj_dm
UpdateM ==
    /\ pc = "update_m"
    /\ m' = DSub(m, DMul(alpha, dj_dm))
    /\ pc' = "save"
    /\ UNCHANGED <<args, J_history, p_history, b, i, dj_dm, dj_db, exc, grad_calls, out>>

\* mutant: if i<=100000
SaveHistory_CapInclusive ==
    /\ pc = "save"
    /\ IF i <= HistoryCap
       THEN /\ J_history' = Append(J_history, compute_cost(x, y, m, b).val)
            /\ p_history' = Append(p_history, <<m, b>>)
       ELSE UNCHANGED <<J_history, p_history>>
    /\ pc' = "print"
    /\ UNCHANGED <<args, b, m, i, dj_dm, dj_db, exc, grad_calls, out>>

\* mutant: p_history.append([b,m])
SaveHistory_SwappedPair ==
    /\ pc = "save"
    /\ IF i < HistoryCap
       THEN /\ J_history' = Append(J_history, compute_cost(x, y, m, b).val)
            /\ p_history' = Append(p_history, <<b, m>>)
       ELSE UNCHANGED <<J_history, p_history>>
    /\ pc' = "print"
    /\ UNCHANGED <<args, b, m, i, dj_dm, dj_db, exc, grad_calls, out>>

\* if i<100000: J_history.append(cost_function(x, y, m, b)); p_history.append([m,b])
SaveHistory ==
    /\ pc = "save"
    /\ IF i < HistoryCap
       THEN LET c == compute_cost(x, y, m, b)
            IN  IF c.err = "none"
                THEN /\ J_history' = Append(J_history, c.val)
                     /\ p_history' = Append(p_history, <<m, b>>)
                     /\ pc' = "print"
                     /\ exc' = exc
                ELSE /\ pc' = "raised"
                     /\ exc' = c.err
                     /\ UNCHANGED <<J_history, p_history>>
       ELSE /\ pc' = "print"
            /\ UNCHANGED <<J_history, p_history, exc>>
    /\ UNCHANGED <<args, b, m, i, dj_dm, dj_db, grad_calls, out>>

\* if i % math.ceil(num_iters/10) == 0: print(... J_history[-1] ...); then the next i
PrintProgress ==
    /\ pc = "print"
    /\ IF i % CeilTenth(num_iters) = 0
       THEN IF J_history = <<>>
            THEN /\ pc' = "raised"
                 /\ exc' = "IndexError"
                 /\ UNCHANGED <<i, out>>
            ELSE /\ out' = Append(out, [i |-> i, cost |-> J_history[Len(J_history)],
                                        dj_dm |-> dj_dm, dj_db |-> dj_db,
                                        m |-> m, b |-> b])
                 /\ i' = i + 1
                 /\ pc' = "loop"
                 /\ exc' = exc
       ELSE /\ i' = i + 1
            /\ pc' = "loop"
            /\ UNCHANGED <<out, exc>>
    /\ UNCHANGED <<args, J_history, p_history, b, m, dj_dm, dj_db, grad_calls>>

\* range(num_iters) exhausted: return m, b, J_history, p_history
Return ==
    /\ pc = "loop"
    /\ ~(i < num_iters)
    /\ pc' = "done"
    /\ UNCHANGED <<args, J_history, p_history, b, m, i, dj_dm, dj_db, exc, grad_calls, out>>

Next ==
    \/ CallGradient
    \/ UpdateB
    \/ UpdateM
    \/ SaveHistory
    \/ PrintProgress
    \/ Return

Spec == Init /\ [][Next]_vars

(***************************************************************************)
(* Vocabulary of the properties.                                           *)
(***************************************************************************)
Min(a, c) == IF a <= c THEN a ELSE c

\* one gradient step from the pair p = <<m, b>>, both components from the gradient at p
GradStep(p) ==
    LET g == compute_gradient(x, y, p[1], p[2]).val
    IN  <<DSub(p[1], DMul(alpha, g.dj_dm)), DSub(p[2], DMul(alpha, g.dj_db))>>

\* k gradient steps from <<m_in, b_in>>
RECURSIVE Iterate(_)
Iterate(k) == IF k <= 0 THEN <<m_in, b_in>> ELSE GradStep(Iterate(k - 1))

\* the pair the k-th recorded entry was stepped from
Before(k) == IF k = 1 THEN <<m_in, b_in>> ELSE p_history[k - 1]

\* every point of the dataset lies on y = mm * x + bb
OnLine(mm, bb) == \A k \in 1..Len(x) : DAdd(DMul(mm, x[k]), bb) = y[k]

FromOrigin == m_in = DInt(0) /\ b_in = DInt(0)

OnTrainSet == x = TrainSet.x /\ y = TrainSet.y

\* C1: for num_iters >= 0 on a non-empty dataset the returned histories both
\* have length min(num_iters, cap), and at the head of the loop, after i
\* completed iterations, both have length min(i, cap).
C1_HistoryLength ==
    /\ (pc = "loop" /\ num_iters >= 0 /\ x # <<>>)
          => Len(J_history) = Min(i, HistoryCap) /\ Len(p_history) = Min(i, HistoryCap)
    /\ (pc = "done" /\ num_iters >= 0 /\ x # <<>>)
          => /\ Len(J_history) = Min(num_iters, HistoryCap)
             /\ Len(p_history) = Min(num_iters, HistoryCap)

C1_Witness ==
    /\ pc = "done"
    /\ num_iters > HistoryCap
    /\ Len(J_history) = HistoryCap
    /\ Len(p_history) = HistoryCap

\* C2: the returned <<m, b>> is the result of num_iters gradient steps from
\* <<m_in, b_in>>: unchanged, with empty histories, for num_iters = 0, and
\* the state after the last iteration also past the history cap.
C2_ReturnsNSteps ==
    (pc = "done" /\ num_iters >= 0)
       => /\ <<m, b>> = Iterate(num_iters)
          /\ num_iters = 0 => /\ m = m_in /\ b = b_in
                              /\ J_history = <<>> /\ p_history = <<>>

\* a run past the cap whose result is not the last recorded pair
C2_Witness ==
    /\ pc = "done"
    /\ num_iters > HistoryCap
    /\ <<m, b>> # p_history[Len(p_history)]
    /\ <<m, b>> # <<m_in, b_in>>

\* C3: in every iteration gradient_function is called once, with the
\* pre-update <<m, b>>, and after both assignments b and m are that pair
\* minus alpha times that one gradient.
C3_SimultaneousUpdate ==
    pc \in {"save", "print"}
       => /\ Len(grad_calls) = i + 1
          /\ LET pre == grad_calls[i + 1]
                 g   == compute_gradient(x, y, pre[1], pre[2]).val
             IN  /\ i = 0 => pre = <<m_in, b_in>>
                 /\ (i > 0 /\ i <= HistoryCap) => pre = p_history[i]
                 /\ dj_dm = g.dj_dm
                 /\ dj_db = g.dj_db
                 /\ b = DSub(pre[2], DMul(alpha, g.dj_db))
                 /\ m = DSub(pre[1], DMul(alpha, g.dj_dm))

\* an iteration where using the already-updated b for m would give another m
C3_Witness ==
    /\ pc = "save"
    /\ i >= 1
    /\ LET pre == grad_calls[i + 1]
       IN  /\ b # pre[2]
           /\ m # DSub(pre[1], DMul(alpha, compute_gradient(x, y, pre[1], b).val.dj_dm))

\* the returned histories: entry k is the pair stepped from the pair before
\* it, with the cost of exactly that pair
C4_EntriesAtReturn ==
    pc = "done"
       => \A k \in 1..Len(p_history) :
             /\ p_history[k] = GradStep(Before(k))
             /\ J_history[k] = compute_cost(x, y, p_history[k][1], p_history[k][2]).val

\* a step appends the current pair and its cost, or leaves the histories alone
C4_AppendOnly ==
    /\ Len(J_history) <= Len(J_history')
    /\ Len(p_history) <= Len(p_history')
    /\ SubSeq(J_history', 1, Len(J_history)) = J_history
    /\ SubSeq(p_history', 1, Len(p_history)) = p_history
    /\ Len(p_history') > Len(p_history)
          => /\ p_history' = Append(p_history, <<m, b>>)
             /\ J_history' = Append(J_history, compute_cost(x, y, m, b).val)
             /\ Len(p_history') = i + 1

\* C4: for every index below min(num_iters, cap), p_history holds the pair
\* after that iteration's update and J_history the cost at exactly that
\* pair, and an appended entry is never modified or removed.
C4_HistoryEntries == [](C4_EntriesAtReturn) /\ [][C4_AppendOnly]_vars

C4_Witness ==
    /\ pc = "done"
    /\ Len(p_history) = HistoryCap
    /\ num_iters > HistoryCap
    /\ p_history[1] # <<m_in, b_in>>
    /\ p_history[2] # p_history[1]

\* a call that violates a precondition of the specification
BadCall == x = <<>> \/ num_iters < 0

Untouched ==
    /\ m = m_in
    /\ b = b_in
    /\ J_history = <<>>
    /\ p_history = <<>>

\* C5 as stated: every call with an empty dataset or a negative iteration
\* count is rejected with an invalid-argument error instead of returning a
\* result, with no update or append before the rejection.
C5_Rejected ==
    BadCall => /\ pc # "done"
               /\ Untouched
               /\ pc = "raised" => exc = "ValueError"

\* C5 amended: with an empty dataset and num_iters >= 1 the first call of
\* gradient_function raises ZeroDivisionError before any update or append
\* and nothing is returned; with a negative num_iters, or an empty dataset
\* and num_iters = 0, the call returns <<m_in, b_in>> and empty histories.
C5_BadCallOutcome ==
    /\ (x = <<>> /\ num_iters >= 1)
          => /\ pc \in {"loop", "raised"}
             /\ Untouched
             /\ pc = "raised" => exc = "ZeroDivisionError" /\ i = 0 /\ Len(grad_calls) = 1
    /\ (num_iters < 0 \/ (x = <<>> /\ num_iters = 0))
          => /\ pc \in {"loop", "done"}
             /\ Untouched
             /\ grad_calls = <<>>
    /\ pc = "raised" => x = <<>>

C5_Witness ==
    /\ pc = "raised"
    /\ x = <<>>
    /\ num_iters >= 1
    /\ exc = "ZeroDivisionError"
    /\ Untouched

\* C6: when every point of a non-empty dataset lies on y = m_in * x + b_in,
\* compute_gradient there is (0, 0) and compute_cost is 0, and
\* gradient_descent started there keeps <<m, b>> for every learning rate and
\* iteration count, every history entry being the initial pair with cost 0.
C6_FixedAtOptimum ==
    (x # <<>> /\ OnLine(m_in, b_in))
       => /\ compute_gradient(x, y, m_in, b_in) = Ok([dj_dm |-> DZero, dj_db |-> DZero])
          /\ compute_cost(x, y, m_in, b_in) = Ok(DZero)
          /\ m = m_in
          /\ b = b_in
          /\ dj_dm = DZero
          /\ dj_db = DZero
          /\ \A k \in 1..Len(p_history) : p_history[k] = <<m_in, b_in>>
          /\ \A k \in 1..Len(J_history) : J_history[k] = DZero

\* the notebook's optimum, (m, b) = (200, 100) on [(1,300),(2,500)], run past the cap
C6_Witness ==
    /\ OnTrainSet
    /\ m_in = DInt(200)
    /\ b_in = DInt(100)
    /\ OnLine(m_in, b_in)
    /\ pc = "done"
    /\ num_iters > HistoryCap
    /\ Len(J_history) = HistoryCap

\* C7: on [(1,300),(2,500)] from (0, 0) with alpha = 0.8 the recorded cost
\* strictly increases from each entry to the next.
C7_CostDiverges ==
    (OnTrainSet /\ FromOrigin /\ alpha = DLit(8, 1))
       => \A k \in 1..(Len(J_history) - 1) : DLess(J_history[k], J_history[k + 1])

\* the notebook's run: 10 iterations, all recorded
C7_Witness ==
    /\ OnTrainSet /\ FromOrigin /\ alpha = DLit(8, 1)
    /\ num_iters = DivergeIters
    /\ pc = "done"
    /\ Len(J_history) = DivergeIters

\* C8: on [(1,300),(2,500)] from (0, 0) with alpha = 0.01 the recorded cost
\* never increases from an entry to the next.
C8_CostDescends ==
    (OnTrainSet /\ FromOrigin /\ alpha = DLit(1, 2))
       => \A k \in 1..(Len(J_history) - 1) : DLeq(J_history[k + 1], J_history[k])

C8_Witness ==
    /\ OnTrainSet /\ FromOrigin /\ alpha = DLit(1, 2)
    /\ pc = "done"
    /\ Len(J_history) = HistoryCap
    /\ DLess(J_history[HistoryCap], J_history[1])

\* C10: every printed line shows a cost read from a non-empty J_history,
\* and that cost is the cost of the m, b printed with it, those of the same
\* iteration, also at iterations past the history cap.  (Stated of the last
\* line printed: every line is the last one in the state that prints it.)
C10_PrintedCostIsCurrent ==
    /\ exc # "IndexError"
    /\ out # <<>>
          => LET line == out[Len(out)]
             IN  line.cost = compute_cost(x, y, line.m, line.b).val

=============================================================================
